---- MODULE Spec2Model ----
(***************************************************************************)
(* Model of adafruit_sharpmemorydisplay.py: the SharpMemoryDisplay driver  *)
(* (a FrameBuffer in MHMSB format whose show() serialises the buffer into  *)
(* the Sharp memory-LCD line protocol over an SPIDevice session) and the   *)
(* image() loader with its numpy and per-pixel strategies.                 *)
(***************************************************************************)
EXTENDS Integers, Sequences, FiniteSets, TLC

\* ------------------------------------------------------------------ bounds
MaxHeight == 2      \* panel heights 0..MaxHeight
MaxRowBytes == 1    \* panel widths 8, 16, .., 8*MaxRowBytes

\* ------------------------------------------------------- program constants
SHARPMEM_BIT_WRITECMD == 128
SHARPMEM_BIT_VCOM == 64

NoCmd == 0 - 1      \* "no command byte delivered yet" (observation only)

NotCalled == 0 - 1  \* "reverse_bit has not returned yet" (observation only)

\* "the last call was not image()" (observation only)
NoImage == [mode |-> "none", w |-> 0, h |-> 0, lit |-> {}]

\* ------------------------------------------------------------ byte helpers
Pow2(n) == 2 ^ n

\* bit k (0 = least significant) of the non-negative integer b
Bit(b, k) == (b \div Pow2(k)) % 2

\* b | mask, for a one-bit mask
OrMask(b, mask) == IF (b \div mask) % 2 = 1 THEN b ELSE b + mask

\* n copies of v: bytearray(n) is Fill(n, 0)
Fill(n, v) == [i \in 1..n |-> v]

\* Python's s[from : from + len] on a sequence (0-based, clipped to the sequence)
Slice(s, from, len) ==
    LET lo == IF from < Len(s) THEN from ELSE Len(s)
        hi == IF from + len < Len(s) THEN from + len ELSE Len(s)
    IN  [i \in 1..(hi - lo) |-> s[lo + i]]

\* ------------------------------------------------------------- reverse_bit
RECURSIVE ReverseLoop(_, _, _)
ReverseLoop(result, num, rounds) ==
    IF rounds = 0 THEN result
    ELSE ReverseLoop(result * 2 + (num % 2), num \div 2, rounds - 1)

\* mutant: the loop runs one round short
ReverseSevenRounds(num) == ReverseLoop(0, num, 7)

\* mutant: the two nibbles are swapped, the bits inside them keep their order
ReverseNibbles(num) == ((num % 16) * 16) + ((num \div 16) % 16)

\* result = 0; for _ in range(8): result <<= 1; result += num & 1; num >>= 1
reverse_bit(num) == ReverseLoop(0, num, 8)

\* ------------------------------------------------------------------- state
VARIABLES
    width,      \* self.width  (constructor argument, pixels)
    height,     \* self.height (constructor argument, pixels)
    numpy,      \* module global: TRUE when "import numpy" succeeded
    rotation,   \* self.rotation (FrameBuffer attribute, 0..3)
    buf,        \* contents of the bytearray the FrameBuffer draws into (self.buf)
    buffer,     \* contents of the bytearray self.buffer refers to
    shared,     \* TRUE while self.buffer and self.buf are the same object
    vcom,       \* self._vcom
    txbuf,      \* self._buf[0], the one-byte transmit scratch buffer
    pc,         \* position inside show(): "idle" when no call is running
    line,       \* show(): loop variable (0 while no call is running)
    slice_from, \* show(): local (0 while no call is running)
    held,       \* TRUE while the SPIDevice session is entered (bus locked, CS active)
    result,     \* outcome of the last call: "ok", or the error raised to the caller
    arg,        \* the raster the last call was given if it was image(), else NoImage
    wire,       \* bytes the transport accepted during the running show()
    lastCmd,    \* last command byte the transport accepted, NoCmd before the first
    oddShows,   \* TRUE when the number of show() calls made so far is odd
    entryVcom,  \* self._vcom as the running show() call found it (vcom when idle)
    anyFail,    \* TRUE once some show() call has raised
    sent,       \* bytes of the previous call if it was a successful show(), else <<>>
    num,        \* reverse_bit called on its own: the argument
    rev,        \* reverse_bit(num) once computed, else NotCalled
    twice       \* reverse_bit(rev) once computed, else NotCalled

vars == <<width, height, numpy, rotation, buf, buffer, shared, vcom, txbuf, pc,
          line, slice_from, held, result, arg, wire, lastCmd, oddShows, entryVcom,
          anyFail, sent, num, rev, twice>>

geometry == <<width, height, numpy>>
showLocals == <<line, slice_from>>
history == <<lastCmd, oddShows, entryVcom, anyFail>>
reversal == <<num, rev, twice>>

Widths == {8 * k : k \in 1..MaxRowBytes}
Heights == 0..MaxHeight

\* ---------------------------------------------------------------- __init__
\* bytearray((width // 8) * height), handed to FrameBuffer and kept as self.buffer
InitialVcom == TRUE

\* the object __init__ leaves behind for the width and height it was given
Constructed ==
    /\ rotation = 0
    /\ buf = Fill((width \div 8) * height, 0)
    /\ buffer = buf
    /\ shared = TRUE
    /\ vcom = InitialVcom
    /\ txbuf = 0
    /\ pc = "idle"
    /\ line = 0
    /\ slice_from = 0
    /\ held = FALSE
    /\ result = "ok"
    /\ arg = NoImage
    /\ wire = <<>>
    /\ lastCmd = NoCmd
    /\ oddShows = FALSE
    /\ entryVcom = InitialVcom
    /\ anyFail = FALSE
    /\ sent = <<>>

\* no separate reverse_bit call is in progress
NoReversal == num = 0 /\ rev = NotCalled /\ twice = NotCalled

Init ==
    /\ width \in Widths
    /\ height \in Heights
    /\ numpy \in BOOLEAN
    /\ Constructed
    /\ NoReversal

\* ------------------------------------------- FrameBuffer (MHMSB) primitives
\* FrameBuffer.pixel's coordinate transform for self.rotation
Rotate(rot, x, y) ==
    CASE rot = 1 -> <<width - y - 1, x>>
      [] rot = 2 -> <<width - x - 1, height - y - 1>>
      [] rot = 3 -> <<y, height - x - 1>>
      [] OTHER   -> <<x, y>>

\* MHMSB.set_pixel: index = (y*stride + x) // 8, offset = 7 - (x & 7)
SetPixelAt(b, x, y, color) ==
    LET index  == (y * width + x) \div 8
        offset == 7 - (x % 8)
        old    == b[index + 1]
        clr    == old - Bit(old, offset) * Pow2(offset)
    IN  [b EXCEPT ![index + 1] = clr + (IF color # 0 THEN Pow2(offset) ELSE 0)]

\* FrameBuffer.pixel(x, y, color): rotate, drop out-of-range coordinates, set
PixelOn(b, rot, x, y, color) ==
    LET p == Rotate(rot, x, y)
    IN  IF p[1] < 0 \/ p[1] >= width \/ p[2] < 0 \/ p[2] >= height
        THEN b
        ELSE SetPixelAt(b, p[1], p[2], color)

\* a write through the FrameBuffer lands in self.buffer only while it is the
\* same object as self.buf
StoreBuf(newbuf) ==
    /\ buf' = newbuf
    /\ buffer' = IF shared THEN newbuf ELSE buffer
    /\ UNCHANGED shared

EffWidth(rot) == IF rot \in {1, 3} THEN height ELSE width
EffHeight(rot) == IF rot \in {1, 3} THEN width ELSE height

PixelCoords ==
    {<<x, y>> : x \in {0, EffWidth(rotation)}, y \in {0}}

Pixel(x, y, color) ==
    /\ pc = "idle"
    /\ StoreBuf(PixelOn(buf, rotation, x, y, color))
    /\ result' = "ok"
    /\ sent' = <<>>
    /\ arg' = NoImage
    /\ UNCHANGED <<geometry, reversal, rotation, vcom, txbuf, pc, showLocals, held, wire, history>>

\* FrameBuffer.fill(color): every byte 0xFF or 0x00
FillBuf(color) ==
    /\ pc = "idle"
    /\ StoreBuf(Fill(Len(buf), IF color # 0 THEN 255 ELSE 0))
    /\ result' = "ok"
    /\ sent' = <<>>
    /\ arg' = NoImage
    /\ UNCHANGED <<geometry, reversal, rotation, vcom, txbuf, pc, showLocals, held, wire, history>>

\* the rotation attribute is assigned by the caller; runs change it once,
\* away from the FrameBuffer default of 0
SetRotation(r) ==
    /\ pc = "idle"
    /\ rotation = 0
    /\ r # 0
    /\ rotation' = r
    /\ result' = "ok"
    /\ arg' = NoImage
    /\ sent' = <<>>
    /\ UNCHANGED <<geometry, reversal, buf, buffer, shared, vcom, txbuf, pc, showLocals, held,
                   wire, history>>

\* ------------------------------------------------------------------- image
\* A raster is [mode, w, h, lit]: img.mode, img.size and the set of <<x, y>>
\* whose pixel is true.
Lit(img, x, y) == IF <<x, y>> \in img.lit THEN 1 ELSE 0

\* numpy.packbits(numpy.asarray(img), axis=1).flatten().tolist(): the array has
\* img.h rows of img.w bits; each row is packed most significant bit first into
\* ceil(img.w / 8) bytes (zero padded), rows concatenated
PackedRowBytes(img) == (img.w + 7) \div 8

PackByte(img, r, j) ==
    LET B(k) == IF 8 * j + k < img.w THEN Lit(img, 8 * j + k, r) * Pow2(7 - k) ELSE 0
    IN  B(0) + B(1) + B(2) + B(3) + B(4) + B(5) + B(6) + B(7)

PackBits(img) ==
    [i \in 1..(img.h * PackedRowBytes(img)) |->
        PackByte(img, (i - 1) \div PackedRowBytes(img), (i - 1) % PackedRowBytes(img))]

\* the per-pixel loops: for x in range(width): for y in range(height):
\* if pixels[(x, y)]: self.pixel(x, y, 1)   -- k counts the iterations done
RECURSIVE PixelLoop(_, _, _, _, _, _)
PixelLoop(b, img, rot, w, h, k) ==
    IF k >= w * h THEN b
    ELSE LET x == k \div h
             y == k % h
         IN  PixelLoop(IF Lit(img, x, y) # 0 THEN PixelOn(b, rot, x, y, 1) ELSE b,
                       img, rot, w, h, k + 1)

\* mutant: the loops run without the buffer being cleared first
PerPixelNoClear(b, img, rot) ==
    PixelLoop(b, img, rot, EffWidth(rot), EffHeight(rot), 0)

\* the per-pixel strategy: clear self.buf, then run the loops
PerPixel(b, img, rot) ==
    PixelLoop(Fill(Len(b), 0), img, rot, EffWidth(rot), EffHeight(rot), 0)

ModeOk(img) == img.mode = "1"

\* mutant: the raster is compared with the unrotated panel size
SizeOkUnrotated(img, rot) == ~(img.w # width \/ img.h # height)

SizeOk(img, rot) == ~(img.w # EffWidth(rot) \/ img.h # EffHeight(rot))

\* mutant: the size is checked before the mode
ImageCheckSizeFirst(img, rot) ==
    IF ~SizeOk(img, rot) THEN "SizeMismatch"
    ELSE IF ~ModeOk(img) THEN "InvalidFormat"
    ELSE "ok"

\* the error image() raises for img, "ok" when it accepts it
ImageCheck(img, rot) ==
    IF ~ModeOk(img) THEN "InvalidFormat"
    ELSE IF ~SizeOk(img, rot) THEN "SizeMismatch"
    ELSE "ok"

\* rasters offered to image(): one lit pattern per accepted size, and rasters
\* of the wrong mode or the wrong size
Modes == {"1", "RGB"}

Sizes == {<<width, height>>, <<height, width>>, <<width, height + 1>>}

LitChoices(w, h) ==
    IF w = 0 \/ h = 0 THEN {{}}
    ELSE {{}, {<<0, 0>>}, {<<w - 1, h - 1>>}}

Images ==
    {[mode |-> m, w |-> sz[1], h |-> sz[2], lit |-> {}] : m \in Modes, sz \in Sizes}
    \cup
    {[mode |-> "1", w |-> EffWidth(rotation), h |-> EffHeight(rotation), lit |-> l] :
        l \in LitChoices(EffWidth(rotation), EffHeight(rotation))}

\* self.buffer after image(img) returns normally, on a display whose buffer
\* held nothing but zeros before
LoadedBuffer(img, rot) ==
    IF numpy THEN PackBits(img)
    ELSE PerPixel(Fill((width \div 8) * height, 0), img, rot)

ImageReject(img) ==
    /\ pc = "idle"
    /\ ImageCheck(img, rotation) # "ok"
    /\ result' = ImageCheck(img, rotation)
    /\ arg' = img
    /\ sent' = <<>>
    /\ UNCHANGED <<geometry, reversal, rotation, buf, buffer, shared, vcom, txbuf, pc,
                   showLocals, held, wire, history>>

\* "if numpy:" -- self.buffer is rebound to a new bytearray, self.buf is not
ImageNumpy(img) ==
    /\ pc = "idle"
    /\ ImageCheck(img, rotation) = "ok"
    /\ numpy
    /\ buffer' = PackBits(img)
    /\ shared' = FALSE
    /\ result' = "ok"
    /\ sent' = <<>>
    /\ arg' = img
    /\ UNCHANGED <<geometry, reversal, rotation, buf, vcom, txbuf, pc, showLocals, held, wire,
                   history>>

\* "else:" -- the FrameBuffer's own buffer is cleared and drawn into
ImagePixels(img) ==
    /\ pc = "idle"
    /\ ImageCheck(img, rotation) = "ok"
    /\ ~numpy
    /\ StoreBuf(PerPixel(buf, img, rotation))
    /\ result' = "ok"
    /\ sent' = <<>>
    /\ arg' = img
    /\ UNCHANGED <<geometry, reversal, rotation, vcom, txbuf, pc, showLocals, held, wire, history>>

\* -------------------------------------------------------------------- show
\* self._buf[0] = _SHARPMEM_BIT_WRITECMD; if self._vcom: self._buf[0] |= _SHARPMEM_BIT_VCOM
CommandByte(v) ==
    IF v THEN OrMask(SHARPMEM_BIT_WRITECMD, SHARPMEM_BIT_VCOM) ELSE SHARPMEM_BIT_WRITECMD

\* mutant: the toggle is never flipped
ToggleStuck(v) == v

\* self._vcom = not self._vcom
Toggle(v) == ~v

\* mutant: rows are numbered from 0 on the wire
LineAddressZeroBased(l) == reverse_bit(l)

\* mutant: the line number goes out as it is
LineAddressPlain(l) == l + 1

\* self._buf[0] = reverse_bit(line + 1)
LineAddress(l) == reverse_bit(l + 1)

\* self.buffer[slice_from : slice_from + line_len], line_len = self.width // 8
RowSlice(b, from) == Slice(b, from, width \div 8)

\* where the for loop goes after i completed iterations
LoopNext(i) == IF i < height THEN "addr" ELSE "last"

\* spi.write(data) returning normally: the transport has accepted all of data
Written(data, nextpc) ==
    /\ wire' = wire \o data
    /\ pc' = nextpc
    /\ UNCHANGED <<result, anyFail>>

\* mutant: an exception leaves show() without running __exit__
UnwindSkipsExit == "idle"

\* mutant: an exception is swallowed and the frame terminator is still sent
UnwindCarriesOn == "last"

\* where control goes when a statement of the with block raises: __exit__ runs
Unwind == "exit"

\* spi.write(data) raising: the transport has accepted less than all of data,
\* the exception leaves the with block
WriteFails(data) ==
    /\ \E k \in 0..(IF Len(data) = 0 THEN 0 ELSE Len(data) - 1) :
           wire' = wire \o SubSeq(data, 1, k)
    /\ pc' = Unwind
    /\ result' = "TransportFailure"
    /\ anyFail' = TRUE

\* "with self.spi_device as spi:" -- __enter__ locks the bus and asserts CS
ShowEnter ==
    /\ pc = "idle"
    /\ held' = TRUE
    /\ pc' = "cmd"
    /\ result' = "running"
    /\ arg' = NoImage
    /\ oddShows' = ~oddShows
    /\ entryVcom' = vcom
    /\ UNCHANGED <<geometry, reversal, sent, rotation, buf, buffer, shared, vcom, txbuf, showLocals,
                   wire, lastCmd, anyFail>>

\* __enter__ raising: the with block is not entered, nothing to release
ShowEnterFails ==
    /\ pc = "idle"
    /\ result' = "TransportFailure"
    /\ arg' = NoImage
    /\ sent' = <<>>
    /\ anyFail' = TRUE
    /\ oddShows' = ~oddShows
    /\ UNCHANGED <<geometry, reversal, rotation, buf, buffer, shared, vcom, txbuf, pc, showLocals,
                   held, wire, lastCmd, entryVcom>>

\* build the command byte, toggle VCOM, write the command byte; slice_from = 0
ShowCmd ==
    /\ pc = "cmd"
    /\ txbuf' = CommandByte(vcom)
    /\ vcom' = Toggle(vcom)
    /\ \/ /\ Written(<<txbuf'>>, LoopNext(0))
          /\ lastCmd' = txbuf'
          /\ slice_from' = 0
          /\ line' = 0
       \/ /\ WriteFails(<<txbuf'>>)
          /\ UNCHANGED <<lastCmd, showLocals>>
    /\ UNCHANGED <<geometry, reversal, sent, arg, rotation, buf, buffer, shared, held, oddShows,
                   entryVcom>>

\* line address
ShowAddr ==
    /\ pc = "addr"
    /\ txbuf' = LineAddress(line)
    /\ \/ Written(<<txbuf'>>, "data")
       \/ WriteFails(<<txbuf'>>)
    /\ UNCHANGED <<geometry, reversal, sent, arg, rotation, buf, buffer, shared, vcom, showLocals, held,
                   lastCmd, oddShows, entryVcom>>

\* the row's bytes, then slice_from += line_len
ShowData ==
    /\ pc = "data"
    /\ \/ /\ Written(RowSlice(buffer, slice_from), "term")
          /\ slice_from' = slice_from + width \div 8
       \/ /\ WriteFails(RowSlice(buffer, slice_from))
          /\ UNCHANGED slice_from
    /\ UNCHANGED <<geometry, reversal, sent, arg, rotation, buf, buffer, shared, vcom, txbuf, line, held,
                   lastCmd, oddShows, entryVcom>>

\* line terminator; the for loop advances
ShowTerm ==
    /\ pc = "term"
    /\ txbuf' = 0
    /\ \/ /\ Written(<<txbuf'>>, LoopNext(line + 1))
          /\ line' = IF line + 1 < height THEN line + 1 ELSE line
       \/ /\ WriteFails(<<txbuf'>>)
          /\ UNCHANGED line
    /\ UNCHANGED <<geometry, reversal, sent, arg, rotation, buf, buffer, shared, vcom, slice_from, held,
                   lastCmd, oddShows, entryVcom>>

\* spi.write(self._buf)  # we send one last 0 byte
ShowLast ==
    /\ pc = "last"
    /\ \/ Written(<<txbuf>>, "exit")
       \/ WriteFails(<<txbuf>>)
    /\ UNCHANGED <<geometry, reversal, sent, arg, rotation, buf, buffer, shared, vcom, txbuf, showLocals,
                   held, lastCmd, oddShows, entryVcom>>

\* leaving the with block, normally or by exception: __exit__ releases the
\* session and the call returns or raises
ShowExit ==
    /\ pc = "exit"
    /\ held' = FALSE
    /\ pc' = "idle"
    /\ result' = IF result = "running" THEN "ok" ELSE result
    /\ wire' = <<>>
    /\ sent' = IF result = "running" THEN wire ELSE <<>>
    /\ entryVcom' = vcom
    /\ line' = 0
    /\ slice_from' = 0
    /\ UNCHANGED <<geometry, reversal, arg, rotation, buf, buffer, shared, vcom, txbuf, lastCmd,
                   oddShows, anyFail>>

\* -------------------------------------------------------------------- Next
Next ==
    \/ \E c \in PixelCoords, color \in {0, 1} : Pixel(c[1], c[2], color)
    \/ FillBuf(0)
    \/ \E r \in 1..3 : SetRotation(r)
    \/ \E img \in Images : ImageReject(img)
    \/ \E img \in Images : ImageNumpy(img)
    \/ \E img \in Images : ImagePixels(img)
    \/ ShowEnter
    \/ ShowEnterFails
    \/ ShowCmd
    \/ ShowAddr
    \/ ShowData
    \/ ShowTerm
    \/ ShowLast
    \/ ShowExit

Spec == Init /\ [][Next]_vars

\* ------------------------------------------------------ show() on its own
\* the steps of show(); nothing draws between the calls
NextShow ==
    \/ ShowEnter
    \/ ShowEnterFails
    \/ ShowCmd
    \/ ShowAddr
    \/ ShowData
    \/ ShowTerm
    \/ ShowLast
    \/ ShowExit

\* __init__ takes any integer width: also widths that are not a multiple of 8
AnyWidths == Widths \cup {8 * k + 4 : k \in 0..MaxRowBytes}

InitAnyWidth ==
    /\ width \in AnyWidths
    /\ height \in Heights
    /\ numpy \in BOOLEAN
    /\ Constructed
    /\ NoReversal

SpecAnyWidth == InitAnyWidth /\ [][NextShow]_vars

\* the tallest panel whose line numbers fit the 8 bits reverse_bit handles
TallHeights == {255}

InitTall ==
    /\ width = 8
    /\ height \in TallHeights
    /\ numpy = FALSE
    /\ Constructed
    /\ NoReversal

SpecTall == InitTall /\ [][NextShow]_vars

\* ------------------------------------------------- reverse_bit on its own
\* reverse_bit is a module-level function: it is called here on every byte,
\* and once more on its own result, beside a display that is left alone
Bytes == 0..255

InitReverse ==
    /\ width = 8
    /\ height = 0
    /\ numpy = FALSE
    /\ Constructed
    /\ num \in Bytes
    /\ rev = NotCalled
    /\ twice = NotCalled

display == <<geometry, rotation, buf, buffer, shared, vcom, txbuf, pc, showLocals, held,
             result, arg, wire, history, sent>>

CallReverse ==
    /\ rev = NotCalled
    /\ rev' = reverse_bit(num)
    /\ UNCHANGED <<display, num, twice>>

CallReverseAgain ==
    /\ rev # NotCalled
    /\ twice = NotCalled
    /\ twice' = reverse_bit(rev)
    /\ UNCHANGED <<display, num, rev>>

NextReverse == CallReverse \/ CallReverseAgain

SpecReverse == InitReverse /\ [][NextReverse]_vars

\* ================================================================== claims
\* ---- the frame as the protocol description lays it out
RowBytes == width \div 8

\* the bytes of rows r .. height-1, each as address, data, terminator
RECURSIVE FrameRows(_, _)
FrameRows(b, r) ==
    IF r >= height THEN <<>>
    ELSE <<reverse_bit(r + 1)>> \o SubSeq(b, r * RowBytes + 1, (r + 1) * RowBytes)
         \o <<0>> \o FrameRows(b, r + 1)

\* command byte, rows 0 .. height-1, frame terminator 0x00
Frame(b, toggle) ==
    <<128 + (IF toggle THEN 64 ELSE 0)>> \o FrameRows(b, 0) \o <<0>>

IsPrefix(p, s) == Len(p) <= Len(s) /\ \A i \in 1..Len(p) : p[i] = s[i]

IsStrictPrefix(p, s) == Len(p) < Len(s) /\ IsPrefix(p, s)

\* the running show() call has made every write without an error
ShowComplete == pc = "exit" /\ result = "running"

\* the running show() call is unwinding after a failed write
ShowRaised == pc = "exit" /\ result = "TransportFailure"

\* C1: a successful show() writes exactly the command byte 0x80 | (0x40 if the
\* toggle was true on entry), then per row in increasing order the reversed
\* 1-based address, the row's width/8 buffer bytes and 0x00, then a final 0x00:
\* 2 + height*(width/8 + 2) bytes in all.
C1_FrameExact ==
    ShowComplete =>
        /\ wire = Frame(buffer, entryVcom)
        /\ Len(wire) = 2 + height * (RowBytes + 2)

\* C2: the toggle starts true and, while every show() has succeeded, the
\* command byte of the n-th show() has bit 0x40 set exactly when n is odd.
C2_StrictAlternation ==
    /\ (~anyFail /\ lastCmd = NoCmd /\ pc \in {"idle", "cmd"}) => vcom = TRUE
    /\ (~anyFail /\ lastCmd # NoCmd /\ pc # "cmd") => (Bit(lastCmd, 6) = 1 <=> oddShows)

\* C2 witness: a second successful show() has sent its command byte with
\* bit 0x40 clear, after the buffer was drawn into.
C2_Witness ==
    /\ ~anyFail /\ ~oddShows /\ ShowComplete
    /\ lastCmd = 128
    /\ \E i \in 1..Len(buffer) : buffer[i] # 0

\* C3: any two consecutive command bytes the transport accepted differ in
\* bit 0x40, also when writes fail in between.
C3_DeliveredAlternate ==
    [][(pc = "cmd" /\ pc' # Unwind /\ lastCmd # NoCmd)
          => Bit(lastCmd', 6) # Bit(lastCmd, 6)]_vars

\* C4 (as claimed): the toggle after every show() call is the negation of its
\* value before the call, whether the call completes, a write fails or the
\* session acquisition fails.
C4_FlipsEveryCall ==
    [][/\ (pc = "exit" /\ pc' = "idle") => vcom' = ~entryVcom
       /\ (pc = "idle" /\ pc' = "idle" /\ oddShows' # oddShows) => vcom' = ~vcom]_vars

\* C4 (amended): the toggle flips exactly once per show() call that acquires the
\* session, whether the call completes or a write fails at any step, and is
\* never reverted; a call whose session acquisition fails leaves it unchanged.
C4_FlipsOncePerSession ==
    [][/\ (pc = "exit" /\ pc' = "idle") => vcom' = ~entryVcom
       /\ (pc = "idle" /\ pc' = "idle" /\ oddShows' # oddShows) => vcom' = vcom
       /\ vcom' # vcom => pc = "cmd"]_vars

\* C4 witness: the command byte write failed, nothing was delivered, and the
\* toggle is flipped all the same.
C4_Witness == ShowRaised /\ wire = <<>> /\ vcom = ~entryVcom

\* C5: show() acquires the session once, before the first byte; every byte is
\* written while it is held; it is released only when the call ends, and it is
\* not held after show() has returned or raised.
C5_SessionScoped ==
    /\ [](held <=> pc # "idle")
    /\ [][/\ (Len(wire') > Len(wire)) => (held /\ held')
          /\ (~held /\ held') => (pc = "idle" /\ wire' = <<>>)
          /\ (held /\ ~held') => (pc = "exit" /\ pc' = "idle")]_vars

\* C5 witness: show() raised at the address or data write of row 2 and the
\* session is released.
C5_Witness ==
    pc = "idle" /\ result = "TransportFailure" /\ txbuf = reverse_bit(2) /\ ~held

\* C6: after a failed write no byte is written and the write is not retried,
\* the failure reaches the caller, and the bytes delivered are a strict prefix
\* of the frame a successful show() writes.
C6_AbortOnFailure ==
    /\ [](ShowRaised => IsStrictPrefix(wire, Frame(buffer, entryVcom)))
    /\ [][ShowRaised => (pc' = "idle" /\ result' = "TransportFailure"
                          /\ ~(Len(wire') > Len(wire)))]_vars
    /\ [][(result' = "TransportFailure" /\ result = "running") => pc' = "exit"]_vars

\* C6 witness: a write of the second row failed after the first row went out.
C6_Witness == ShowRaised /\ Len(wire) > RowBytes + 3

\* C7: for every accepted raster, under the current rotation and whatever the
\* buffer held before, the numpy strategy and the per-pixel strategy leave the
\* same bytes to transmit.
C7_StrategiesAgree ==
    \A img \in Images :
        ImageCheck(img, rotation) = "ok" => PackBits(img) = PerPixel(buf, img, rotation)

\* the panel size as the raster must match it: swapped for rotation 1 and 3
AdjustedSize(rot) == IF rot \in {0, 2} THEN <<width, height>> ELSE <<height, width>>

\* the step is a call of image()
ImageCalled == arg' # NoImage

\* C8 (as claimed): image() with any raster whose size differs from the
\* rotation-adjusted panel size fails with SizeMismatch and leaves the buffer
\* unchanged; a 1-bit raster of the adjusted size is not rejected.
C8_MismatchAlwaysSizeError ==
    [][ImageCalled =>
          /\ <<arg'.w, arg'.h>> # AdjustedSize(rotation)
                => (result' = "SizeMismatch" /\ UNCHANGED <<buf, buffer, shared>>)
          /\ (arg'.mode = "1" /\ <<arg'.w, arg'.h>> = AdjustedSize(rotation))
                => result' = "ok"]_vars

\* C8 (amended): image() with a 1-bit raster whose size differs from the
\* rotation-adjusted panel size fails with SizeMismatch and leaves the buffer
\* unchanged; a 1-bit raster of the adjusted size is not rejected.
C8_SizeMismatchRejected ==
    [][(ImageCalled /\ arg'.mode = "1") =>
          /\ <<arg'.w, arg'.h>> # AdjustedSize(rotation)
                => (result' = "SizeMismatch" /\ UNCHANGED <<buf, buffer, shared>>)
          /\ <<arg'.w, arg'.h>> = AdjustedSize(rotation) => result' = "ok"]_vars

\* C8 witness: under a rotation that swaps the sides, a 1-bit raster of the
\* unrotated panel size was refused for its size and the drawn buffer is
\* still there.
C8_Witness ==
    /\ result = "SizeMismatch" /\ rotation \in {1, 3}
    /\ arg.mode = "1" /\ <<arg.w, arg.h>> = <<width, height>>
    /\ \E i \in 1..Len(buffer) : buffer[i] # 0

\* C9: image() with a raster that is not 1 bit per pixel fails with
\* InvalidFormat whatever its size, and leaves the buffer and the toggle alone.
C9_DepthCheckedFirst ==
    [][(ImageCalled /\ arg'.mode # "1") =>
          (result' = "InvalidFormat" /\ UNCHANGED <<buf, buffer, shared, vcom>>)]_vars

\* C9 witness: a raster of the wrong depth and the wrong size was refused for
\* its depth, after a drawing and a show().
C9_Witness ==
    /\ result = "InvalidFormat" /\ vcom = FALSE
    /\ arg.mode = "RGB" /\ <<arg.w, arg.h>> # AdjustedSize(rotation)
    /\ \E i \in 1..Len(buffer) : buffer[i] # 0

\* C10: the buffer show() transmits always has (width/8)*height bytes.
C10_BufferLength == Len(buffer) = (width \div 8) * height

\* C11: a width that is not a multiple of 8 is refused by the constructor, so
\* no show() ever runs (let alone completes) on a display whose width is not
\* byte-aligned.
C11_AlignedWidth == (pc # "idle") => width % 8 = 0

\* C12: on a display of height 0 a successful show() sends exactly two bytes,
\* the command byte and then one 0x00, and still flips the toggle.
C12_EmptyFrame ==
    (ShowComplete /\ height = 0) =>
        /\ wire = <<128 + (IF entryVcom THEN 64 ELSE 0), 0>>
        /\ vcom = ~entryVcom

\* C13: reversing the bits of a byte twice gives the byte back, for every
\* byte 0..255.
C13_Involution == (twice # NotCalled) => twice = num

\* C13 witness: a byte that is not its own mirror image went through twice.
C13_Witness == num = 6 /\ rev = 96 /\ twice = 6

\* C14: reverse_bit mirrors the 8 bits: bit i of the result is bit 7-i of the
\* argument; 0x01 gives 0x80, 0x80 gives 0x01, 0x00 gives 0x00.
C14_Mirror ==
    (rev # NotCalled) =>
        /\ rev \in Bytes
        /\ \A i \in 0..7 : Bit(rev, i) = Bit(num, 7 - i)
        /\ num = 1 => rev = 128
        /\ num = 128 => rev = 1
        /\ num = 0 => rev = 0

\* C14 witness: 0x80 has been reversed, to 0x01.
C14_Witness == num = 128 /\ rev = 1 /\ twice = NotCalled

\* ---- place of row r's address byte in the bytes of a frame
AddressAt(r) == 2 + r * (RowBytes + 2)

\* C18: on a panel of up to 255 rows the address bytes of one show() are all
\* different, each lies in 1..255 (never 0x00, the terminator value), and
\* reversing the address of row r gives r + 1.
C18_AddressesDistinct ==
    (pc = "data") =>
        LET a == wire[Len(wire)]
        IN  /\ Len(wire) = AddressAt(line)
            /\ a \in 1..255
            /\ reverse_bit(a) = line + 1
            /\ \A r \in 0..(line - 1) : wire[AddressAt(r)] # a

\* C18 witness: the address of the last of 255 rows has gone out.
C18_Witness == pc = "data" /\ height = 255 /\ line = 254 /\ wire[Len(wire)] = 255

\* C15: the buffer the drawing operations write is the buffer show() reads:
\* whatever was drawn and loaded before, a pixel (x, y) that is set in the
\* FrameBuffer goes out as a 1 at bit 7 - (x mod 8) of byte x/8 of row y
\* (stated for the default rotation, where (x, y) is the panel position).
C15_DrawnPixelsSent ==
    (pc = "term" /\ rotation = 0) =>
        \A x \in 0..(width - 1) :
            Bit(buf[(line * RowBytes) + (x \div 8) + 1], 7 - (x % 8)) = 1
                => Bit(wire[Len(wire) - RowBytes + (x \div 8) + 1], 7 - (x % 8)) = 1

\* ---- show() has delivered its command byte and has not failed since
CommandSent == pc \in {"addr", "data", "term", "last"} \/ ShowComplete

\* C16 (as claimed): every line address and also the command byte goes
\* through reverse_bit on its way out: row r's address byte is
\* reverse_bit(r + 1) and the command byte is reverse_bit of the value built
\* from the write and VCOM bits.
C16_AllReversed ==
    /\ (pc = "data") => wire[Len(wire)] = reverse_bit(line + 1)
    /\ CommandSent => wire[1] = reverse_bit(CommandByte(entryVcom))

\* C16 (amended): every line address goes through reverse_bit (row r's
\* address byte is reverse_bit(r + 1)); the command byte does not: the value
\* built from the write and VCOM bits is sent as it is.
C16_AddressesReversed ==
    /\ (pc = "data") => (txbuf = reverse_bit(line + 1) /\ wire[Len(wire)] = txbuf)
    /\ CommandSent => wire[1] = CommandByte(entryVcom)

\* C16 witness: the second show() has sent 0x80 and the address of row 1.
C16_Witness ==
    pc = "data" /\ line = 1 /\ ~entryVcom /\ wire[1] = 128 /\ wire[Len(wire)] = 64

\* ---- two byte strings are equal but for bit 0x40 of their first byte
SameButToggle(a, b) ==
    /\ Len(a) = Len(b)
    /\ \A i \in 1..Len(a) :
           \/ a[i] = b[i]
           \/ i = 1 /\ a[i] - Bit(a[i], 6) * 64 = b[i] - Bit(b[i], 6) * 64

\* ---- the step belongs to a show() call
ShowStep == pc # "idle" \/ pc' # "idle" \/ (result' = "TransportFailure" /\ arg' = NoImage)

\* C17: show() leaves the buffer as it found it, contents and length, on
\* every exit path, so a successful show() that directly follows a successful
\* show() sends the same bytes but for bit 0x40 of the command byte.
C17_ShowKeepsBuffer ==
    [][/\ ShowStep => UNCHANGED <<buf, buffer, shared>>
       /\ (ShowComplete' /\ sent' # <<>>) => SameButToggle(sent', wire')]_vars

\* ---- number of 1 bits in a byte string
Ones(b) == Cardinality({<<i, k>> \in (1..Len(b)) \X (0..7) : Bit(b[i], k) = 1})

\* C19: after image() has accepted a raster the buffer depends on the raster
\* and the rotation only: it is what the same load leaves on a blank display,
\* it holds one 1 bit per lit pixel and 0 everywhere else, and loading the
\* same raster once more would leave it as it is.
C19_LoadDetermines ==
    (arg # NoImage /\ result = "ok") =>
        /\ buffer = LoadedBuffer(arg, rotation)
        /\ Ones(buffer) = Cardinality(arg.lit)
        /\ buffer = (IF numpy THEN PackBits(arg) ELSE PerPixel(buf, arg, rotation))

\* C19 witness: after a show(), a raster with one lit pixel was loaded pixel by
\* pixel and the buffer holds that one bit.
C19_Witness ==
    /\ arg # NoImage /\ result = "ok" /\ ~numpy /\ vcom = FALSE
    /\ arg.lit = {<<0, 0>>} /\ buffer[1] = 128 /\ Ones(buffer) = 1

====
